---- MODULE Spec2Model ----
(***************************************************************************)
(* Statistical tools of the nanometer-scale simulation backend             *)
(* (backend/services/statistical.py) and their HTTP routes                 *)
(* (backend/routes/chapter2.py).                                           *)
(*                                                                         *)
(* Conventions                                                             *)
(*   - Python dicts that keep insertion order (the factor mapping) are     *)
(*     sequences; a factor is named by its position.                       *)
(*   - Python/numpy indices are 0-based and are kept 0-based as VALUES     *)
(*     (level indices, experiment row indices); TLA+ sequences are         *)
(*     1-based, so a 0-based index i reads element i + 1.                  *)
(*   - An uncaught Python exception is a result whose fault field names    *)
(*     the exception; a route turns it into a 500 response.                *)
(*   - A floating-point NaN is a nan flag on the block of results that     *)
(*     holds it; numpy produces it silently (a warning, no exception).     *)
(***************************************************************************)
EXTENDS Integers, Sequences, FiniteSets, TLC

VARIABLES
    tg_request,     \* JSON body of POST /api/ch2/taguchi
    tg_result,      \* the response (or the exception the call raised)
    tg_pc,          \* "idle" | "service" | "route": who produced tg_result
    pca_request,    \* JSON body of POST /api/ch2/pca
    pca_response,   \* the response of the pca route
    pca_calls,      \* how many times pca_analysis was invoked
    rod,            \* arguments of the two rod-mesh computations
    E_samples,      \* monte_carlo_rod_mesh: E_sample of every finished draw
    C_draws,        \* monte_carlo_rod_mesh: damping matrix C of every draw
    all_H_mag,      \* monte_carlo_rod_mesh: one row of magnitudes per draw
    mc_result,      \* what monte_carlo_rod_mesh returned
    pc_result,      \* what polynomial_chaos_rod_mesh returned
    osc,            \* arguments of linear_oscillator_uncertainty
    osc_draws,      \* its Monte Carlo loop: xi_s, omega_s of every draw
    mc_responses,   \* its Monte Carlo loop: one row of responses per draw
    tag_evals,      \* its grid loop: point, floored value, weight per pair
    osc_result,     \* what linear_oscillator_uncertainty returned
    np_random,      \* state of numpy's global generator behind np.random
    streams         \* per request thread: the Monte Carlo call it runs

tg_vars == <<tg_request, tg_result, tg_pc>>
pca_vars == <<pca_request, pca_response, pca_calls>>
mc_vars == <<E_samples, C_draws, all_H_mag, mc_result>>
rod_vars == <<rod, mc_vars, pc_result>>
osc_vars == <<osc, osc_draws, mc_responses, tag_evals, osc_result>>
rng_vars == <<np_random, streams>>
vars == <<tg_vars, pca_vars, rod_vars, osc_vars, rng_vars>>

Min(a, b) == IF a < b THEN a ELSE b

\* The sum of a sequence of numbers.
RECURSIVE SumSeq(_)
SumSeq(q) == IF q = <<>> THEN 0 ELSE Head(q) + SumSeq(Tail(q))

RECURSIVE ISqrtBetween(_, _, _)
ISqrtBetween(n, lo, hi) ==
    IF lo >= hi THEN lo
    ELSE LET mid == (lo + hi + 1) \div 2
         IN  IF mid * mid <= n
             THEN ISqrtBetween(n, mid, hi)
             ELSE ISqrtBetween(n, lo, mid - 1)

\* floor(sqrt(n))
ISqrt(n) == ISqrtBetween(n, 0, Min(n, 46340))

(***************************************************************************)
(* Taguchi design (statistical.py, taguchi_method)                         *)
(***************************************************************************)

\* Largest number of factors a request carries in the model.
MaxFactors == 5

\* Level lists a factor may carry: the two of the documented example, one
\* with a repeated level, and one with only two levels.
LevelLists == { <<1, 2, 3>>, <<10, 20, 30>>, <<7, 7, 8>>, <<4, 5>> }

\* Factor mappings: ordered, 0..MaxFactors factors.
FactorMaps == UNION { [1..k -> LevelLists] : k \in 0..MaxFactors }

\* The route's default mapping (E_modulus, damping, density), three levels
\* each; the values are kept as small integers.
DefaultFactors == << <<20, 21, 22>>, <<2, 4, 6>>, <<77, 78, 80>> >>

L9_mutant ==
    << <<0, 0, 0, 0>>,
       <<0, 1, 1, 1>>,
       <<0, 2, 2, 2>>,
       <<1, 0, 1, 2>>,
       <<1, 1, 2, 0>>,
       <<1, 2, 0, 1>>,
       <<2, 0, 2, 1>>,
       <<2, 1, 0, 2>>,
       <<2, 2, 0, 1>> >>

\* Standard L9 orthogonal array (up to 4 factors, 3 levels).
L9 ==
    << <<0, 0, 0, 0>>,
       <<0, 1, 1, 1>>,
       <<0, 2, 2, 2>>,
       <<1, 0, 1, 2>>,
       <<1, 1, 2, 0>>,
       <<1, 2, 0, 1>>,
       <<2, 0, 2, 1>>,
       <<2, 1, 0, 2>>,
       <<2, 2, 1, 0>> >>

\* numpy basic slicing a[:, :n]: the first n columns, clamped to the width.
SliceColumns(a, n) ==
    [r \in 1..Len(a) |-> SubSeq(a[r], 1, Min(n, Len(a[r])))]

\* The rows of oa, 0-based, in enumerate order.
RowIndices(oa) == [i \in 1..Len(oa) |-> i - 1]

TaguchiFault(kind) ==
    [fault |-> kind, orthogonal_array |-> <<>>, experiments |-> <<>>,
     num_experiments |-> 0, sn_analysis |-> <<>>]

\* The experiments loop indexes row[col_idx] and
\* factor_levels[col_idx][level_idx]; either raises IndexError when the
\* index is out of range.
ExperimentsIndexError(oa, factor_levels) ==
    \E r \in 1..Len(oa) : \E c \in 1..Len(factor_levels) :
        \/ c > Len(oa[r])
        \/ oa[r][c] + 1 > Len(factor_levels[c])

BuildExperiments_mutant(oa, factor_levels) ==
    [r \in 1..Len(oa) |->
        [c \in 1..Len(factor_levels) |-> factor_levels[c][oa[1][c] + 1]]]

\* experiments[r][c] = factor_levels[c][oa[r][c]]
BuildExperiments(oa, factor_levels) ==
    [r \in 1..Len(oa) |->
        [c \in 1..Len(factor_levels) |-> factor_levels[c][oa[r][c] + 1]]]

Matching_mutant(oa, f, level_idx) ==
    SelectSeq(RowIndices(oa), LAMBDA i : oa[i + 1][f] >= level_idx)

\* matching = [i for i, row in enumerate(oa) if row[f_idx] == level_idx]
Matching(oa, f, level_idx) ==
    SelectSeq(RowIndices(oa), LAMBDA i : oa[i + 1][f] = level_idx)

\* sn_ratios[factor] = one entry per level of the factor's own list.
BuildSnRatios(oa, factor_levels) ==
    [f \in 1..Len(factor_levels) |->
        [l \in 1..Len(factor_levels[f]) |->
            [level |-> factor_levels[f][l],
             experiments |-> Matching(oa, f, l - 1)]]]

taguchi_method(factors, levels_per_factor) ==
    LET num_factors == Len(factors)
        oa == SliceColumns(L9, num_factors)
    IN  IF ExperimentsIndexError(oa, factors)
        THEN TaguchiFault("IndexError")
        ELSE [fault |-> "none",
              orthogonal_array |-> oa,
              experiments |-> BuildExperiments(oa, factors),
              num_experiments |-> Len(oa),
              sn_analysis |-> BuildSnRatios(oa, factors)]

\* Python binds positional arguments before the body runs: factors and
\* levels_per_factor have no default, so a call with fewer than two
\* arguments raises TypeError.
Call_taguchi_method(args) ==
    IF Len(args) < 2
    THEN TaguchiFault("TypeError")
    ELSE taguchi_method(args[1], args[2])

\* Flask: a view that returns gives 200 with the JSON body; an exception
\* that escapes the view gives 500.
Respond(result) ==
    IF result.fault = "none"
    THEN [status |-> 200, body |-> result]
    ELSE [status |-> 500, body |-> result]

NoResponse == [status |-> 0, body |-> TaguchiFault("none")]

TaguchiRequests ==
    [has_factors : {TRUE}, factors : FactorMaps]
        \cup { [has_factors |-> FALSE, factors |-> <<>>] }

NoTaguchiRequest == [has_factors |-> FALSE, factors |-> <<>>]

\* A direct call of the service function with both required arguments.
TaguchiService ==
    /\ tg_pc = "idle"
    /\ tg_request.has_factors
    /\ \E levels_per_factor \in {3} :
        tg_result' = Respond(Call_taguchi_method(
                                <<tg_request.factors, levels_per_factor>>))
    /\ tg_pc' = "service"
    /\ UNCHANGED <<tg_request, pca_vars, rod_vars, osc_vars, rng_vars>>

\* POST /api/ch2/taguchi
TaguchiRoute ==
    /\ tg_pc = "idle"
    /\ LET factors == IF tg_request.has_factors
                      THEN tg_request.factors ELSE DefaultFactors
       IN  tg_result' = Respond(Call_taguchi_method(<<factors>>))
    /\ tg_pc' = "route"
    /\ UNCHANGED <<tg_request, pca_vars, rod_vars, osc_vars, rng_vars>>

TaguchiNext == TaguchiService \/ TaguchiRoute

(***************************************************************************)
(* PCA route (chapter2.py, pca) and the entry of pca_analysis              *)
(***************************************************************************)

\* Largest number of observation rows of a posted matrix.
MaxRows == 3

\* Numbers of variables (columns) of a posted matrix.
ColumnCounts == {1, 2}

\* Values of a matrix entry.
EntryValues == {0, 1, 2}

Matrices ==
    UNION { [1..n -> [1..p -> EntryValues]] : n \in 0..MaxRows, p \in ColumnCounts }

\* data.get('data_matrix'): None when the key is absent.
PcaRequests ==
    [present : {TRUE}, rows : Matrices] \cup { [present |-> FALSE, rows |-> <<>>] }

PcaRejects_mutant(data_matrix) ==
    \/ ~data_matrix.present
    \/ Len(data_matrix.rows) = 0

\* if not data_matrix or len(data_matrix) < 2: None and [] are falsy.
PcaRejects(data_matrix) ==
    \/ ~data_matrix.present
    \/ Len(data_matrix.rows) = 0
    \/ Len(data_matrix.rows) < 2

\* Numbers of pca_analysis.  With D the discriminant of the 2x2 scatter
\* matrix, a real of the field Q(sqrt(D)) is <<p, q>> = p + q sqrt(D); the
\* radicand D is carried by the result.  The arithmetic is exact.
QAdd(x, y) == <<x[1] + y[1], x[2] + y[2]>>

QSub(x, y) == <<x[1] - y[1], x[2] - y[2]>>

QScale(k, x) == <<k * x[1], k * x[2]>>

QMul(x, y, R) == <<x[1] * y[1] + x[2] * y[2] * R, x[1] * y[2] + x[2] * y[1]>>

Sgn(n) == IF n > 0 THEN 1 ELSE IF n < 0 THEN -1 ELSE 0

RECURSIVE CmpFrac(_, _, _, _)
\* The sign of a/b - c/d for a, c >= 0 and b, d > 0, by continued
\* fractions: no product is formed, so nothing overflows.
CmpFrac(a, b, c, d) ==
    IF a \div b # c \div d THEN Sgn((a \div b) - (c \div d))
    ELSE IF a % b = 0 \/ c % d = 0 THEN Sgn((a % b) - (c % d))
    ELSE CmpFrac(d, c % d, b, a % b)

\* The sign of P - Q sqrt(R) for P, Q, R > 0, that is of P^2 - Q^2 R: with
\* r = floor(sqrt(R)), t = P div Q and m = P mod Q, the quotient t decides
\* unless t = r, and then (r + m/Q)^2 is compared with R.
CmpRoot(P, Q, R) ==
    LET r == ISqrt(R)
        t == P \div Q
        m == P % Q
        X == (R - r * r) * Q - 2 * r * m
    IN  IF t > r THEN 1
        ELSE IF t < r THEN -1
        ELSE IF m = 0 THEN Sgn(0 - X)
        ELSE IF X <= 0 THEN 1
        ELSE CmpFrac(m, Q, X, m)

\* The sign of p + q sqrt(R), R >= 0.
QSign(x, R) ==
    LET p == x[1]
        q == x[2]
    IN  IF q = 0 \/ R = 0 THEN Sgn(p)
        ELSE IF p = 0 THEN Sgn(q)
        ELSE IF p > 0 /\ q > 0 THEN 1
        ELSE IF p < 0 /\ q < 0 THEN -1
        ELSE IF p > 0 THEN CmpRoot(p, 0 - q, R)
        ELSE 0 - CmpRoot(0 - p, q, R)

\* x = y as reals: the pair of a real is not unique when R is a square.
QEq(x, y, R) == QSign(QSub(x, y), R) = 0

\* np.sum(data, axis=0): mean = ColumnSums / n_obs.
ColumnSums(data) ==
    [k \in 1..Len(data[1]) |-> SumSeq([i \in 1..Len(data) |-> data[i][k]])]

\* centered = data - mean, times n_obs.
Centered(data) ==
    [i \in 1..Len(data) |->
        [k \in 1..Len(data[1]) |-> Len(data) * data[i][k] - ColumnSums(data)[k]]]

\* Sum over the observations of centered[:, j] * centered[:, k].
Scatter(centered, j, k) ==
    SumSeq([i \in 1..Len(centered) |-> centered[i][j] * centered[i][k]])

\* np.cov(centered, rowvar=False): the scatter over n_obs - 1, squeezed.
\* For one variable the 1x1 result is squeezed to a 0-dimensional array.
\* The entries are m / den, den = n_obs^2 (n_obs - 1).
np_cov(centered) ==
    LET n_obs == Len(centered)
        n_vars == Len(centered[1])
        den == n_obs * n_obs * (n_obs - 1)
    IN  IF n_vars = 1
        THEN [ndim |-> 0, m |-> <<Scatter(centered, 1, 1)>>, den |-> den]
        ELSE [ndim |-> 2,
              m |-> <<Scatter(centered, 1, 1), Scatter(centered, 1, 2),
                      Scatter(centered, 2, 1), Scatter(centered, 2, 2)>>,
              den |-> den]

\* A unit vector of the plane is u / sqrt(n2) with u in Q(sqrt(D))^2.
UnitColumn(u1, u2, n2, sign) ==
    [u |-> <<QScale(sign, u1), QScale(sign, u2)>>, n2 |-> n2]

\* np.linalg.eigh: eigenvalues in ascending order, w[k] = num / den with
\* num = trace -+ sqrt(D), and one unit eigenvector per column.  A
\* 0-dimensional argument raises LinAlgError.  The sign of an eigenvector
\* is the library's choice: signs[k] is the sign of column k.  A diagonal
\* matrix has the coordinate axes as eigenvectors.
eigh(cov, signs) ==
    IF cov.ndim = 0
    THEN [error |-> TRUE, radicand |-> 0, w |-> <<>>, v |-> <<>>]
    ELSE LET a == cov.m[1]
             b == cov.m[2]
             c == cov.m[4]
             D == (a - c) * (a - c) + 4 * b * b
             e1 == << <<1, 0>>, <<0, 0>> >>
             e2 == << <<0, 0>>, <<1, 0>> >>
             lo == IF a <= c THEN e1 ELSE e2
             hi == IF a <= c THEN e2 ELSE e1
         IN  [error |-> FALSE,
              radicand |-> D,
              w |-> << [num |-> <<a + c, -1>>, den |-> 2 * cov.den],
                       [num |-> <<a + c, 1>>, den |-> 2 * cov.den] >>,
              v |-> IF b = 0
                    THEN << UnitColumn(lo[1], lo[2], <<1, 0>>, signs[1]),
                            UnitColumn(hi[1], hi[2], <<1, 0>>, signs[2]) >>
                    ELSE << UnitColumn(<<2 * b, 0>>, <<c - a, -1>>,
                                       <<2 * D, 2 * (a - c)>>, signs[1]),
                            UnitColumn(<<2 * b, 0>>, <<c - a, 1>>,
                                       <<2 * D, 2 * (c - a)>>, signs[2]) >>]

\* np.argsort of two eigenvalues with a common denominator: the 0-based
\* positions in ascending order, ties in input order.
argsort(w, R) ==
    IF QSign(QSub(w[2].num, w[1].num), R) < 0 THEN <<1, 0>> ELSE <<0, 1>>

\* seq[::-1]
Reversed(seq) == [k \in 1..Len(seq) |-> seq[Len(seq) + 1 - k]]

\* eigenvalues[idx]
Take(seq, idx) == [k \in 1..Len(idx) |-> seq[idx[k] + 1]]

TakeColumns_mutant(columns, idx) == columns

\* eigenvectors[:, idx]
TakeColumns(columns, idx) == [k \in 1..Len(idx) |-> columns[idx[k] + 1]]

\* np.cumsum of values with a common denominator.
cumsum(seq) ==
    [k \in 1..Len(seq) |->
        [num |-> IF k = 1 THEN seq[1].num ELSE QAdd(seq[1].num, seq[2].num),
         den |-> seq[k].den]]

NoPcaBody ==
    [fault |-> "none", n_observations |-> 0, n_variables |-> 0,
     radicand |-> 0, mean |-> <<>>, eigenvalues |-> <<>>,
     eigenvectors |-> <<>>, explained_variance_ratio |-> <<>>,
     cumulative_variance |-> <<>>, scores |-> <<>>, correlations |-> <<>>]

\* One loading correlation,
\*   corr = eigenvectors[var, pc] * sqrt(eigenvalues[pc]) / std_var
\* when std_var > 0 and eigenvalues[pc] > 0, and 0 otherwise.  std_var is
\* np.std(data[:, var]), the population deviation: std_var^2 is
\* scatter / n_obs^3, while the eigenvalue is lambda / (2 n_obs^2 (n_obs - 1)).
\* The correlation is held by its sign and its square sq_num / sq_den:
\*   corr^2 = (u^2 / n2) * eigenvalue / std_var^2
\*          = n_obs u^2 lambda / (2 (n_obs - 1) scatter n2).
Correlation(u, n2, lambda, scatter, n_obs, R) ==
    IF scatter > 0 /\ QSign(lambda, R) > 0
    THEN [zero |-> FALSE,
          sign |-> QSign(u, R),
          sq_num |-> QScale(n_obs, QMul(QMul(u, u, R), lambda, R)),
          sq_den |-> QScale(2 * (n_obs - 1) * scatter, n2)]
    ELSE [zero |-> TRUE, sign |-> 0, sq_num |-> <<0, 0>>, sq_den |-> <<1, 0>>]

\* pca_analysis for one or two variables.  mean[k] is num / den; an
\* eigenvalue, a ratio and a cumulative entry are num / den with num in
\* Q(sqrt(radicand)); eigenvectors[var][pc] is num / sqrt(n2);
\* scores[i][pc] is num / (den sqrt(n2)); correlations[pc][var] is a
\* sign and a square.
pca_analysis(data_matrix, signs) ==
    LET n_obs == Len(data_matrix)
        n_vars == Len(data_matrix[1])
        centered == Centered(data_matrix)
        cov_matrix == np_cov(centered)
        e == eigh(cov_matrix, signs)
        idx == Reversed(argsort(e.w, e.radicand))
        eigenvalues == Take(e.w, idx)
        columns == TakeColumns(e.v, idx)
        total_variance == QAdd(eigenvalues[1].num, eigenvalues[2].num)
        explained_variance_ratio ==
            IF QSign(total_variance, e.radicand) > 0
            THEN [k \in 1..n_vars |->
                     [num |-> eigenvalues[k].num, den |-> total_variance[1]]]
            ELSE eigenvalues
    IN  IF e.error
        THEN [NoPcaBody EXCEPT !.fault = "LinAlgError"]
        ELSE [fault |-> "none",
              n_observations |-> n_obs,
              n_variables |-> n_vars,
              radicand |-> e.radicand,
              mean |-> [k \in 1..n_vars |->
                           [num |-> ColumnSums(data_matrix)[k], den |-> n_obs]],
              eigenvalues |-> eigenvalues,
              eigenvectors |->
                  [var \in 1..n_vars |-> [pc \in 1..n_vars |->
                      [num |-> columns[pc].u[var], n2 |-> columns[pc].n2]]],
              explained_variance_ratio |-> explained_variance_ratio,
              cumulative_variance |-> cumsum(explained_variance_ratio),
              scores |->
                  [i \in 1..n_obs |-> [pc \in 1..n_vars |->
                      [num |-> QAdd(QScale(centered[i][1], columns[pc].u[1]),
                                    QScale(centered[i][2], columns[pc].u[2])),
                       den |-> n_obs,
                       n2 |-> columns[pc].n2]]],
              correlations |->
                  [pc \in 1..Min(3, n_vars) |-> [var \in 1..n_vars |->
                      Correlation(columns[pc].u[var], columns[pc].n2,
                                  eigenvalues[pc].num,
                                  Scatter(centered, var, var),
                                  n_obs, e.radicand)]]]

\* The signs eigh may give the two eigenvector columns.
SignChoices == { <<1, 1>>, <<1, -1>>, <<-1, 1>>, <<-1, -1>> }

NoPcaRequest == [present |-> FALSE, rows |-> <<>>]

NoPcaResponse == [status |-> 0, error |-> "", body |-> NoPcaBody]

\* POST /api/ch2/pca
PcaRoute ==
    /\ pca_response.status = 0
    /\ IF PcaRejects(pca_request)
       THEN /\ pca_response' =
                 [status |-> 400,
                  error |-> "data_matrix must have at least 2 observations",
                  body |-> NoPcaBody]
            /\ pca_calls' = pca_calls
       ELSE /\ \E signs \in SignChoices :
                 LET result == pca_analysis(pca_request.rows, signs)
                 IN  pca_response' =
                         [status |-> IF result.fault = "none" THEN 200
                                     ELSE 500,
                          error |-> "", body |-> result]
            /\ pca_calls' = pca_calls + 1
    /\ UNCHANGED <<pca_request, tg_vars, rod_vars, osc_vars, rng_vars>>

PcaNext == PcaRoute

(***************************************************************************)
(* Rod mesh: monte_carlo_rod_mesh and polynomial_chaos_rod_mesh            *)
(*                                                                         *)
(* Numbers are exact: reals are integers or integer fractions, a complex   *)
(* number is <<re, im>>, a 2x2 matrix is <<a11, a12, a21, a22>>.  A        *)
(* reported magnitude is in fixed point, in units of 1/Scale.  The         *)
(* angular frequencies omega are integers: omega[i] = i * omega_step,      *)
(* the linspace from 0 that the routes ask for.  A draw of                 *)
(* np.random.randn() is an integer of -MaxEps..MaxEps.                     *)
(***************************************************************************)

\* Bounds of the rod-mesh inputs.
MaxE0 == 3
MaxEps == 1
MaxSamples == 2
MaxFreqPoints == 3
SigmaValues == {0, 1}
DampingValues == {0, 1}
OmegaSteps == {0, 1}

\* Truncation orders a chaos request may carry (the default is 2).
OrderValues == {1, 2}

\* Fixed-point resolution of a magnitude.
Scale == 100

Eps == (0 - MaxEps)..MaxEps

\* Complex arithmetic on <<re, im>>.
CAdd(a, b) == <<a[1] + b[1], a[2] + b[2]>>
CSub(a, b) == <<a[1] - b[1], a[2] - b[2]>>
CMul(a, b) == <<a[1] * b[1] - a[2] * b[2], a[1] * b[2] + a[2] * b[1]>>
CNorm2(a) == a[1] * a[1] + a[2] * a[2]

\* Real 2x2 matrices.
MScale(c, A) == [i \in 1..4 |-> c * A[i]]
MSub(A, B) == [i \in 1..4 |-> A[i] - B[i]]
Eye2 == <<1, 0, 0, 1>>

\* M = np.array([[2 * m, m], [m, 2 * m]]) with m = 1.0
MassMatrix == <<2, 1, 1, 2>>

\* K = np.array([[2 * k, -k], [-k, 2 * k]])
Stiffness(k) == <<2 * k, 0 - k, 0 - k, 2 * k>>

\* omega = 2 * np.pi * np.linspace(0, freq_max, num_freq_points)
Omega(num_freq_points, omega_step) ==
    [i \in 1..num_freq_points |-> (i - 1) * omega_step]

\* C = damping * (K / E0): the entries are fractions over E0.
MonteCarloDamping(damping, K, E0) ==
    [num |-> MScale(damping, K), den |-> E0]

\* frequencies = np.linspace(0, freq_max, num_freq_points), held in units
\* of 1 / (2 pi) so that omega = 2 pi f is the same integer.
Frequencies(num_freq_points, omega_step) ==
    [i \in 1..num_freq_points |-> (i - 1) * omega_step]

ChaosMatrices_mutant(E0, sigma_E) ==
    [K0 |-> Stiffness(E0 + sigma_E), K1 |-> Stiffness(sigma_E)]

\* K0 = [[2 E0, -E0], [-E0, 2 E0]] and K1, the same form with sigma_E.
ChaosMatrices(E0, sigma_E) ==
    [K0 |-> Stiffness(E0), K1 |-> Stiffness(sigma_E)]

\* C = damping * np.eye(2)
ChaosDamping(damping) == [num |-> MScale(damping, Eye2), den |-> 1]

\* The matrix of the static solve, K itself.
StaticSystem(K) == [re |-> K, im |-> <<0, 0, 0, 0>>, den |-> 1]

\* Z = K - w**2 * M + 1j * w * C, as (re + j im) / den.
Impedance(K, w, C) ==
    [re |-> MScale(C.den, MSub(K, MScale(w * w, MassMatrix))),
     im |-> MScale(w, C.num),
     den |-> C.den]

Entry(Z, i) == <<Z.re[i], Z.im[i]>>

\* Determinant of re + j im (without the denominator).
Det(Z) ==
    CSub(CMul(Entry(Z, 1), Entry(Z, 4)), CMul(Entry(Z, 2), Entry(Z, 3)))

\* np.linalg.solve(Z, [1.0, 0.0]): LinAlgError when Z is singular, else
\* x = (Z22, -Z21) / det(Z); every component is a quotient num / den of
\* complex integers.
linalg_solve(Z) ==
    LET d == Det(Z)
    IN  IF d = <<0, 0>>
        THEN [error |-> TRUE, x |-> <<>>]
        ELSE [error |-> FALSE,
              x |-> << [num |-> <<Z.den * Z.re[4], Z.den * Z.im[4]>>, den |-> d],
                       [num |-> <<0 - Z.den * Z.re[3], 0 - Z.den * Z.im[3]>>,
                        den |-> d] >>]

\* np.abs of a complex quotient, in units of 1/Scale.
Abs(h) == ISqrt((Scale * Scale * CNorm2(h.num)) \div CNorm2(h.den))

TrySolve_mutant(Z) ==
    LET r == linalg_solve(Z)
    IN  IF r.error
        THEN [fault |-> "LinAlgError", value |-> 0]
        ELSE [fault |-> "none", value |-> Abs(r.x[1])]

\* try: H = solve(...); mag = np.abs(H[0])  except LinAlgError: mag = 0
TrySolve(Z) ==
    LET r == linalg_solve(Z)
    IN  IF r.error
        THEN [fault |-> "none", value |-> 0]
        ELSE [fault |-> "none", value |-> Abs(r.x[1])]

\* K1 @ H for a real matrix K1 and a complex vector H.
MatVec(A, v) ==
    << <<A[1] * v[1][1] + A[2] * v[2][1], A[1] * v[1][2] + A[2] * v[2][2]>>,
       <<A[3] * v[1][1] + A[4] * v[2][1], A[3] * v[1][2] + A[4] * v[2][2]>> >>

\* adj(Z) v: Z^-1 v = adj(Z) v / det(Z).
AdjApply(Z, v) ==
    << CSub(CMul(Entry(Z, 4), v[1]), CMul(Entry(Z, 2), v[2])),
       CSub(CMul(Entry(Z, 1), v[2]), CMul(Entry(Z, 3), v[1])) >>

CNeg(v) == << <<0 - v[1][1], 0 - v[1][2]>>, <<0 - v[2][1], 0 - v[2][2]>> >>

\* H1 = -solve(Z0, K1 @ H0) and H2 = -solve(Z0, K1 @ H1), for
\* H0 = num / det(Z0): H1 is over det^2 and H2 over det^3.
ChaosCorrections(Z0, K1, H0) ==
    LET d == Det(Z0)
        n1 == CNeg(AdjApply(Z0, MatVec(K1, H0)))
        n2 == CNeg(AdjApply(Z0, MatVec(K1, n1)))
    IN  [H1 |-> [num |-> n1, den |-> CMul(d, d)],
         H2 |-> [num |-> n2, den |-> CMul(CMul(d, d), d)]]

\* The dynamic branch of the chaos engine: the three solves share one try
\* block and one matrix Z0; "Mean is just H0 term".
ChaosTrySolve(Z0, K1) ==
    LET r == linalg_solve(Z0)
    IN  IF r.error
        THEN [fault |-> "none", value |-> 0, H1 |-> <<>>, H2 |-> <<>>]
        ELSE LET c == ChaosCorrections(Z0, K1, <<r.x[1].num, r.x[2].num>>)
             IN  [fault |-> "none", value |-> Abs(r.x[1]),
                  H1 |-> c.H1, H2 |-> c.H2]

\* The body of the chaos engine's frequency loop.
ChaosMagnitudeAt(K0, K1, C, w) ==
    IF w = 0
    THEN TrySolve(StaticSystem(K0))
    ELSE ChaosTrySolve(Impedance(K0, w, C), K1)

\* The body of the frequency loop: static solve for w == 0, dynamic else.
MagnitudeAt(K, C, w) ==
    IF w = 0
    THEN TrySolve(StaticSystem(K))
    ELSE TrySolve(Impedance(K, w, C))

SampleModulus_mutant(E0, sigma_E, eps) == E0 + eps

\* E_sample = E0 + sigma_E * np.random.randn()
SampleModulus(E0, sigma_E, eps) == E0 + sigma_E * eps

Column_mutant(rows, f) == [s \in 1..Len(rows) |-> rows[s][1]]

\* all_H_mag[:, f], the axis-0 slice the reductions run over.
Column(rows, f) == [s \in 1..Len(rows) |-> rows[s][f]]

\* np.mean(all_H_mag, axis=0) at one frequency.
Mean(col) == SumSeq(col) \div Len(col)

Std_mutant(col) ==
    ISqrt(SumSeq([s \in 1..Len(col) |-> col[s] * col[s]]) \div Len(col))

\* np.std(all_H_mag, axis=0) at one frequency (population deviation).
Std(col) ==
    LET mu == Mean(col)
    IN  ISqrt(SumSeq([s \in 1..Len(col) |-> (col[s] - mu) * (col[s] - mu)])
                \div Len(col))

NoRodInputs ==
    [E0 |-> 0, sigma_E |-> 0, damping |-> 0, num_freq_points |-> 1,
     omega_step |-> 0, num_samples |-> 1, order |-> 2]

RodInputs ==
    [E0 : 0..MaxE0, sigma_E : SigmaValues, damping : DampingValues,
     num_freq_points : 1..MaxFreqPoints, omega_step : OmegaSteps,
     num_samples : 1..MaxSamples, order : OrderValues]

NoMcResult ==
    [done |-> FALSE, fault |-> "none", frequencies |-> <<>>,
     mean_transfer_function |-> <<>>,
     std_transfer_function |-> <<>>, upper_bound |-> <<>>,
     lower_bound |-> <<>>, num_samples |-> 0]

NoPcResult ==
    [done |-> FALSE, fault |-> "none", mean_transfer_function |-> <<>>,
     chaos_order |-> 0]

\* One iteration of "for s in range(num_samples)": the draw and its whole
\* frequency sweep.  C = damping * (K / E0) divides by the nominal modulus:
\* the arithmetic here is exact, so the computation is modelled for
\* E0 # 0 only (in floating point E0 = 0 gives inf/nan entries, no fault).
\* The fault branch is Python's: an exception that leaves the loop body
\* ends the call.
MonteCarloDraw ==
    /\ ~mc_result.done
    /\ rod.E0 # 0
    /\ Len(all_H_mag) < rod.num_samples
    /\ \E eps \in Eps :
        LET E_sample == SampleModulus(rod.E0, rod.sigma_E, eps)
            K == Stiffness(E_sample)
            C == MonteCarloDamping(rod.damping, K, rod.E0)
            omega == Omega(rod.num_freq_points, rod.omega_step)
            row == [f \in 1..Len(omega) |-> MagnitudeAt(K, C, omega[f])]
        IN  IF \E f \in 1..Len(omega) : row[f].fault # "none"
            THEN /\ mc_result' = [NoMcResult EXCEPT !.done = TRUE,
                                                    !.fault = "LinAlgError"]
                 /\ UNCHANGED <<E_samples, C_draws, all_H_mag>>
            ELSE /\ E_samples' = Append(E_samples, E_sample)
                 /\ C_draws' = Append(C_draws, C)
                 /\ all_H_mag' =
                       Append(all_H_mag, [f \in 1..Len(omega) |-> row[f].value])
                 /\ UNCHANGED mc_result
    /\ UNCHANGED <<rod, pc_result, tg_vars, pca_vars, osc_vars, rng_vars>>

\* After the last draw: mean, std, bounds and the returned payload.
MonteCarloReduce ==
    /\ ~mc_result.done
    /\ Len(all_H_mag) = rod.num_samples
    /\ LET F == 1..rod.num_freq_points
           mean_H == [f \in F |-> Mean(Column(all_H_mag, f))]
           std_H == [f \in F |-> Std(Column(all_H_mag, f))]
       IN  mc_result' =
             [done |-> TRUE, fault |-> "none",
              frequencies |->
                  Frequencies(rod.num_freq_points, rod.omega_step),
              mean_transfer_function |-> mean_H,
              std_transfer_function |-> std_H,
              upper_bound |-> [f \in F |-> mean_H[f] + 2 * std_H[f]],
              lower_bound |-> [f \in F |-> mean_H[f] - 2 * std_H[f]],
              num_samples |-> rod.num_samples]
    /\ UNCHANGED <<rod, E_samples, C_draws, all_H_mag, pc_result,
                   tg_vars, pca_vars, osc_vars, rng_vars>>

\* polynomial_chaos_rod_mesh, the whole call.  The corrections H1 and H2 are
\* solved with the same matrix Z0 as H0 and are not part of the result.
PolynomialChaos ==
    /\ ~pc_result.done
    /\ LET m == ChaosMatrices(rod.E0, rod.sigma_E)
           C == ChaosDamping(rod.damping)
           omega == Omega(rod.num_freq_points, rod.omega_step)
           row == [f \in 1..Len(omega) |->
                      ChaosMagnitudeAt(m.K0, m.K1, C, omega[f])]
       IN  IF \E f \in 1..Len(omega) : row[f].fault # "none"
           THEN pc_result' = [NoPcResult EXCEPT !.done = TRUE,
                                                !.fault = "LinAlgError"]
           ELSE pc_result' =
                  [done |-> TRUE, fault |-> "none",
                   mean_transfer_function |->
                       [f \in 1..Len(omega) |-> row[f].value],
                   chaos_order |-> rod.order]
    /\ UNCHANGED <<rod, mc_vars, tg_vars, pca_vars, osc_vars, rng_vars>>

RodNext == MonteCarloDraw \/ MonteCarloReduce \/ PolynomialChaos

(***************************************************************************)
(* Linear oscillator: linear_oscillator_uncertainty                        *)
(*                                                                         *)
(* xi, omega and the sweep frequencies are integers in units of            *)
(* 1/PerUnit, the size of the floor 0.001.  With D the integer             *)
(* PerUnit^2 (omega^2 - wf^2)^2 + (2 xi omega wf)^2 the code's denom is    *)
(* sqrt(D) / PerUnit^3, and a response is held in fixed point as           *)
(* ResponseScale * f_amplitude / sqrt(D).  A Gaussian weight is held in    *)
(* units of exp(-4.5), which is 1/90 to four digits.                       *)
(***************************************************************************)

\* 1 / 0.001: model units per unit of xi and of omega.
PerUnit == 1000

\* The floor 0.001 in model units.
FloorValue == 1

MaxXi0 == 2
MaxOmega0 == 2

\* mc_samples
McSampleCounts == {1, 2}

\* Values of one np.random.randn() in the oscillator's sampling loop.
OscEps == {-1, 0, 1}

\* sigma_xi and sigma_omega, in model units.
OscSigmaValues == {0, 1}

AmplitudeValues == {1, 2}

\* taguchi_points
GridSizes == {1, 2, 3}

\* np.linspace(freq_min, freq_max, num_freq_points), in model units.
Sweeps == { <<1>>, <<0, 1>>, <<1, 2>> }

ResponseScale == 500

\* f_amplitude / 1e-15: the response when denom is below 1e-15, which in
\* model units is denom = 0.  It is above every other response.
Saturated == 2000000000

\* max(x, 0.001)
FloorAt_mutant(x) == x

FloorAt(x) == IF x > FloorValue THEN x ELSE FloorValue

Response_mutant(xi, om, wf, f) ==
    LET D == PerUnit * PerUnit * (om * om - wf * wf) * (om * om - wf * wf)
             + (xi * om * wf) * (xi * om * wf)
    IN  IF D = 0
        THEN Saturated
        ELSE ISqrt((ResponseScale * ResponseScale * f * f) \div D)

\* denom = sqrt((om^2 - wf^2)^2 + (2 xi om wf)^2);
\* response = f_amplitude / max(denom, 1e-15)
Response(xi, om, wf, f) ==
    LET D == PerUnit * PerUnit * (om * om - wf * wf) * (om * om - wf * wf)
             + (2 * xi * om * wf) * (2 * xi * om * wf)
    IN  IF D = 0
        THEN Saturated
        ELSE ISqrt((ResponseScale * ResponseScale * f * f) \div D)

\* The inner frequency loop: one response per sweep frequency.
ResponseRow(xi, om, frequencies, f) ==
    [i \in 1..Len(frequencies) |-> Response(xi, om, frequencies[i], f)]

\* np.linspace(start, stop, num); a single point is start.
Linspace(start, stop, num) ==
    IF num = 1
    THEN <<start>>
    ELSE [i \in 1..num |-> start + ((i - 1) * (stop - start)) \div (num - 1)]

\* exp(-0.5 z^2) for z = 0, 1, 2, 3 in units of 1/90; 0 beyond.
GaussTable == <<90, 55, 12, 1>>

Gauss(z) ==
    LET a == IF z < 0 THEN 0 - z ELSE z
    IN  IF a < Len(GaussTable) THEN GaussTable[a + 1] ELSE 0

\* weights = exp(-0.5 * ((points - x0) / sigma)**2); weights /= weights.sum()
\* The division by sigma = 0 is 0/0 at every point (points = x0 then): numpy
\* warns and gives nan, and every weight is nan.  Otherwise weight i is
\* g[i] / sum.
GaussianWeights(points, x0, sigma) ==
    IF sigma = 0
    THEN [nan |-> TRUE, g |-> [i \in 1..Len(points) |-> 0], sum |-> 0]
    ELSE LET g == [i \in 1..Len(points) |-> Gauss((points[i] - x0) \div sigma)]
         IN  [nan |-> SumSeq(g) = 0, g |-> g, sum |-> SumSeq(g)]

\* The double loop over the grid, flattened in loop order: pair k is
\* (i, j) with i the xi index and j the omega index.
GridLoop(xi_points, omega_points, xi_weights, omega_weights) ==
    LET n == Len(omega_points)
    IN  [k \in 1..(Len(xi_points) * n) |->
            LET i == ((k - 1) \div n) + 1
                j == ((k - 1) % n) + 1
            IN  [xi_p |-> xi_points[i], om_p |-> omega_points[j],
                 xi_val |-> FloorAt(xi_points[i]),
                 om_val |-> FloorAt(omega_points[j]),
                 w |-> xi_weights.g[i] * omega_weights.g[j]]]

\* tag_mean, tag_var and tag_std of the grid loop; w is
\* evals[k].w / (xi_weights.sum * omega_weights.sum).
TaguchiQuadrature(o) ==
    LET n == o.taguchi_points
        xi_points == Linspace(o.xi0 - 3 * o.sigma_xi,
                              o.xi0 + 3 * o.sigma_xi, n)
        omega_points == Linspace(o.omega0 - 3 * o.sigma_omega,
                                 o.omega0 + 3 * o.sigma_omega, n)
        xi_weights == GaussianWeights(xi_points, o.xi0, o.sigma_xi)
        omega_weights == GaussianWeights(omega_points, o.omega0, o.sigma_omega)
        evals == GridLoop(xi_points, omega_points, xi_weights, omega_weights)
        nan == xi_weights.nan \/ omega_weights.nan
        total == xi_weights.sum * omega_weights.sum
        resp(k, i) == Response(evals[k].xi_val, evals[k].om_val,
                               o.frequencies[i], o.f_amplitude)
        tag_mean == [i \in 1..Len(o.frequencies) |->
                        IF nan THEN 0
                        ELSE SumSeq([k \in 1..Len(evals) |->
                                 evals[k].w * resp(k, i)]) \div total]
        tag_var == [i \in 1..Len(o.frequencies) |->
                        IF nan THEN 0
                        ELSE SumSeq([k \in 1..Len(evals) |->
                                 evals[k].w * resp(k, i) * resp(k, i)])
                             \div total]
        spread(i) == tag_var[i] - tag_mean[i] * tag_mean[i]
    IN  [evals |-> evals,
         taguchi |->
             [nan |-> nan,
              mean |-> tag_mean,
              std |-> [i \in 1..Len(o.frequencies) |->
                          IF nan \/ spread(i) < 0 THEN 0
                          ELSE ISqrt(spread(i))],
              points |-> n]]

\* det_response, from xi0 and omega0 as given (no floor).
DeterministicResponse(o) ==
    ResponseRow(o.xi0, o.omega0, o.frequencies, o.f_amplitude)

OscInputs ==
    [xi0 : 0..MaxXi0, omega0 : 0..MaxOmega0,
     sigma_xi : OscSigmaValues, sigma_omega : OscSigmaValues,
     f_amplitude : AmplitudeValues, frequencies : Sweeps,
     mc_samples : McSampleCounts, taguchi_points : GridSizes]

NoOscInputs ==
    [xi0 |-> 0, omega0 |-> 0, sigma_xi |-> 0, sigma_omega |-> 0,
     f_amplitude |-> 1, frequencies |-> <<1>>, mc_samples |-> 1,
     taguchi_points |-> 1]

NoOscResult ==
    [done |-> FALSE, frequencies |-> <<>>, deterministic_response |-> <<>>,
     monte_carlo |-> [mean |-> <<>>, std |-> <<>>, samples |-> 0],
     taguchi |-> [nan |-> FALSE, mean |-> <<>>, std |-> <<>>, points |-> 0]]

\* One pass of the Monte Carlo loop: two draws of np.random.randn(), the
\* floor, and the row of responses.
OscillatorDraw ==
    /\ ~osc_result.done
    /\ Len(mc_responses) < osc.mc_samples
    /\ \E e1 \in OscEps, e2 \in OscEps :
          LET xi_raw == osc.xi0 + osc.sigma_xi * e1
              omega_raw == osc.omega0 + osc.sigma_omega * e2
              xi_s == FloorAt(xi_raw)
              omega_s == FloorAt(omega_raw)
          IN  /\ osc_draws' = Append(osc_draws,
                     [xi_raw |-> xi_raw, omega_raw |-> omega_raw,
                      xi_s |-> xi_s, omega_s |-> omega_s])
              /\ mc_responses' = Append(mc_responses,
                     ResponseRow(xi_s, omega_s, osc.frequencies,
                                 osc.f_amplitude))
    /\ UNCHANGED <<osc, tag_evals, osc_result, tg_vars, pca_vars, rod_vars,
                   rng_vars>>

\* The rest of the call once the Monte Carlo loop is over: its reductions,
\* the weighted grid, the deterministic response and the returned dict.
OscillatorFinish ==
    /\ ~osc_result.done
    /\ Len(mc_responses) = osc.mc_samples
    /\ LET q == TaguchiQuadrature(osc)
       IN  /\ tag_evals' = q.evals
           /\ osc_result' =
                  [done |-> TRUE,
                   frequencies |-> osc.frequencies,
                   deterministic_response |-> DeterministicResponse(osc),
                   monte_carlo |->
                       [mean |-> [i \in 1..Len(osc.frequencies) |->
                                     Mean(Column(mc_responses, i))],
                        std |-> [i \in 1..Len(osc.frequencies) |->
                                    Std(Column(mc_responses, i))],
                        samples |-> osc.mc_samples],
                   taguchi |-> q.taguchi]
    /\ UNCHANGED <<osc, osc_draws, mc_responses, tg_vars, pca_vars, rod_vars,
                   rng_vars>>

OscNext == OscillatorDraw \/ OscillatorFinish

(***************************************************************************)
(* The random stream of the two sampling engines                           *)
(*                                                                         *)
(* monte_carlo_rod_mesh and linear_oscillator_uncertainty draw with        *)
(* np.random.randn(), the module-level generator of numpy: one generator   *)
(* per process, created at import, that no engine seeds, copies or         *)
(* restores.  The server (app.run) serves each request on its own thread,  *)
(* so two calls can be between their first and last draw at the same       *)
(* time; one randn() is atomic (the generator holds a lock per draw).      *)
(* The generator is a deterministic automaton: a draw reads the state and  *)
(* moves it one step.                                                      *)
(***************************************************************************)

\* The states of the generator.
RngStates == 0..7

\* The state after one draw (a full-period congruential step).
Advance(state) == (5 * state + 3) % 8

\* The value np.random.randn() returns in a state.
Randn(state) == (state % (2 * MaxEps + 1)) - MaxEps

\* The two request threads.
Threads == {1, 2}

MaxStreamSamples == 2

\* The arguments of the calls: the engine and its sample count vary, the
\* other arguments are the same in every call.
StreamRod ==
    [E0 |-> 2, sigma_E |-> 1, damping |-> 1, num_freq_points |-> 2,
     omega_step |-> 1]

StreamOsc ==
    [xi0 |-> 1, omega0 |-> 1, sigma_xi |-> 1, sigma_omega |-> 1,
     f_amplitude |-> 1, frequencies |-> <<1, 2>>]

\* randn() calls of one call: one per sample for the rod mesh, two per
\* sample for the oscillator.
DrawsNeeded(engine, samples) ==
    IF engine = "rod" THEN samples ELSE 2 * samples

\* all_H_mag of monte_carlo_rod_mesh for the draws it consumed.
RodRows(draws) ==
    LET omega == Omega(StreamRod.num_freq_points, StreamRod.omega_step)
    IN  [s \in 1..Len(draws) |->
            LET K == Stiffness(SampleModulus(StreamRod.E0, StreamRod.sigma_E,
                                             draws[s]))
                C == MonteCarloDamping(StreamRod.damping, K, StreamRod.E0)
            IN  [f \in 1..Len(omega) |-> MagnitudeAt(K, C, omega[f]).value]]

\* mc_responses of linear_oscillator_uncertainty for the draws it consumed:
\* sample s takes draw 2s - 1 for xi and draw 2s for omega.
OscRows(draws) ==
    [s \in 1..(Len(draws) \div 2) |->
        ResponseRow(FloorAt(StreamOsc.xi0
                                + StreamOsc.sigma_xi * draws[2 * s - 1]),
                    FloorAt(StreamOsc.omega0
                                + StreamOsc.sigma_omega * draws[2 * s]),
                    StreamOsc.frequencies, StreamOsc.f_amplitude)]

\* The statistics a call returns: per-frequency mean and std.
Statistics(engine, draws) ==
    LET rows == IF engine = "rod" THEN RodRows(draws) ELSE OscRows(draws)
    IN  [mean |-> [f \in 1..Len(rows[1]) |-> Mean(Column(rows, f))],
         std |-> [f \in 1..Len(rows[1]) |-> Std(Column(rows, f))]]

NoStatistics == [mean |-> <<>>, std |-> <<>>]

\* A thread before its call: the arguments are known, nothing has run.
\* entered_at is the generator state the call found, after is the set of
\* threads whose call had returned by then.
StreamCalls ==
    [engine : {"rod", "osc"}, samples : 1..MaxStreamSamples,
     status : {"idle"}, entered_at : {0}, after : {{}}, draws : {<<>>},
     result : {NoStatistics}]

NoStream ==
    [engine |-> "rod", samples |-> 1, status |-> "idle", entered_at |-> 0,
     after |-> {}, draws |-> <<>>, result |-> NoStatistics]

NoStreams == [t \in Threads |-> NoStream]

\* The call is entered: nothing is seeded, the generator is the process's.
EnterCall(t) ==
    /\ streams[t].status = "idle"
    /\ streams' = [streams EXCEPT
           ![t].status = "running",
           ![t].entered_at = np_random,
           ![t].after = {u \in Threads : streams[u].status = "done"}]
    /\ UNCHANGED <<np_random, tg_vars, pca_vars, rod_vars, osc_vars>>

\* One np.random.randn() of a running call.
DrawRandn(t) ==
    /\ streams[t].status = "running"
    /\ Len(streams[t].draws) < DrawsNeeded(streams[t].engine, streams[t].samples)
    /\ streams' = [streams EXCEPT
           ![t].draws = Append(streams[t].draws, Randn(np_random))]
    /\ np_random' = Advance(np_random)
    /\ UNCHANGED <<tg_vars, pca_vars, rod_vars, osc_vars>>

\* The call returns its statistics; the generator stays where the draws
\* left it.
ReturnCall(t) ==
    /\ streams[t].status = "running"
    /\ Len(streams[t].draws) = DrawsNeeded(streams[t].engine, streams[t].samples)
    /\ streams' = [streams EXCEPT
           ![t].status = "done",
           ![t].result = Statistics(streams[t].engine, streams[t].draws)]
    /\ UNCHANGED <<np_random, tg_vars, pca_vars, rod_vars, osc_vars>>

StreamNext == \E t \in Threads : EnterCall(t) \/ DrawRandn(t) \/ ReturnCall(t)

(***************************************************************************)
(* Specifications                                                          *)
(***************************************************************************)

\* The Taguchi operation alone: any request, nothing answered yet.
TaguchiInit ==
    /\ tg_request \in TaguchiRequests
    /\ tg_result = NoResponse
    /\ tg_pc = "idle"
    /\ pca_request = NoPcaRequest
    /\ pca_response = NoPcaResponse
    /\ pca_calls = 0
    /\ rod = NoRodInputs
    /\ E_samples = <<>>
    /\ C_draws = <<>>
    /\ all_H_mag = <<>>
    /\ mc_result = NoMcResult
    /\ pc_result = NoPcResult
    /\ osc = NoOscInputs
    /\ osc_draws = <<>>
    /\ mc_responses = <<>>
    /\ tag_evals = <<>>
    /\ osc_result = NoOscResult
    /\ np_random = 0
    /\ streams = NoStreams

SpecTaguchi == TaguchiInit /\ [][TaguchiNext]_vars

\* The PCA route alone.
PcaInit ==
    /\ tg_request = NoTaguchiRequest
    /\ tg_result = NoResponse
    /\ tg_pc = "idle"
    /\ pca_request \in PcaRequests
    /\ pca_response = NoPcaResponse
    /\ pca_calls = 0
    /\ rod = NoRodInputs
    /\ E_samples = <<>>
    /\ C_draws = <<>>
    /\ all_H_mag = <<>>
    /\ mc_result = NoMcResult
    /\ pc_result = NoPcResult
    /\ osc = NoOscInputs
    /\ osc_draws = <<>>
    /\ mc_responses = <<>>
    /\ tag_evals = <<>>
    /\ osc_result = NoOscResult
    /\ np_random = 0
    /\ streams = NoStreams

SpecPca == PcaInit /\ [][PcaNext]_vars

\* The two rod-mesh computations, run on the same arguments.
RodInit ==
    /\ tg_request = NoTaguchiRequest
    /\ tg_result = NoResponse
    /\ tg_pc = "idle"
    /\ pca_request = NoPcaRequest
    /\ pca_response = NoPcaResponse
    /\ pca_calls = 0
    /\ rod \in RodInputs
    /\ E_samples = <<>>
    /\ C_draws = <<>>
    /\ all_H_mag = <<>>
    /\ mc_result = NoMcResult
    /\ pc_result = NoPcResult
    /\ osc = NoOscInputs
    /\ osc_draws = <<>>
    /\ mc_responses = <<>>
    /\ tag_evals = <<>>
    /\ osc_result = NoOscResult
    /\ np_random = 0
    /\ streams = NoStreams

SpecRod == RodInit /\ [][RodNext]_vars

\* One call of linear_oscillator_uncertainty, for any arguments.
OscInit ==
    /\ tg_request = NoTaguchiRequest
    /\ tg_result = NoResponse
    /\ tg_pc = "idle"
    /\ pca_request = NoPcaRequest
    /\ pca_response = NoPcaResponse
    /\ pca_calls = 0
    /\ rod = NoRodInputs
    /\ E_samples = <<>>
    /\ C_draws = <<>>
    /\ all_H_mag = <<>>
    /\ mc_result = NoMcResult
    /\ pc_result = NoPcResult
    /\ osc \in OscInputs
    /\ osc_draws = <<>>
    /\ mc_responses = <<>>
    /\ tag_evals = <<>>
    /\ osc_result = NoOscResult
    /\ np_random = 0
    /\ streams = NoStreams

SpecOsc == OscInit /\ [][OscNext]_vars

\* Two request threads, each with one Monte Carlo call to make, in a
\* process whose generator is in any state.
StreamInit ==
    /\ tg_request = NoTaguchiRequest
    /\ tg_result = NoResponse
    /\ tg_pc = "idle"
    /\ pca_request = NoPcaRequest
    /\ pca_response = NoPcaResponse
    /\ pca_calls = 0
    /\ rod = NoRodInputs
    /\ E_samples = <<>>
    /\ C_draws = <<>>
    /\ all_H_mag = <<>>
    /\ mc_result = NoMcResult
    /\ pc_result = NoPcResult
    /\ osc = NoOscInputs
    /\ osc_draws = <<>>
    /\ mc_responses = <<>>
    /\ tag_evals = <<>>
    /\ osc_result = NoOscResult
    /\ np_random \in RngStates
    /\ streams \in [Threads -> StreamCalls]

SpecStream == StreamInit /\ [][StreamNext]_vars

(***************************************************************************)
(* Taguchi design: properties                                              *)
(***************************************************************************)

Levels == 0..2

\* Every ordered pair of levels occurs in exactly one row, for every pair
\* of distinct columns of a.
Orthogonal(a) ==
    \A c1, c2 \in 1..Len(a[1]) :
        c1 # c2 =>
            \A x, y \in Levels :
                Cardinality({ r \in 1..Len(a) : a[r][c1] = x /\ a[r][c2] = y }) = 1

ThreeLevels(factors) == \A c \in 1..Len(factors) : Len(factors[c]) = 3

DistinctLevels(factors) ==
    \A c \in 1..Len(factors) :
        \A i, j \in 1..Len(factors[c]) : i # j => factors[c][i] # factors[c][j]

\* The service function returned normally for a mapping of 3-level factors.
ServiceReturned ==
    /\ tg_pc = "service"
    /\ ThreeLevels(tg_request.factors)
    /\ Len(tg_request.factors) \in 1..4

\* C1: the canonical 9x4 array is orthogonal (every ordered level pair
\* exactly once for every pair of distinct columns), and so is the
\* orthogonal_array returned for k = 2, 3, 4 factors, which is the first k
\* columns of the canonical array.
C1_OrthogonalArray ==
    /\ Len(L9) = 9
    /\ \A r \in 1..9 : Len(L9[r]) = 4
    /\ Orthogonal(L9)
    /\ (ServiceReturned /\ Len(tg_request.factors) >= 2) =>
          LET oa == tg_result.body.orthogonal_array
              k == Len(tg_request.factors)
          IN  /\ tg_result.status = 200
              /\ Len(oa) = 9
              /\ \A r \in 1..9 : oa[r] = SubSeq(L9[r], 1, k)
              /\ Orthogonal(oa)

C1_Witness ==
    /\ ServiceReturned
    /\ Len(tg_request.factors) = 3
    /\ tg_result.status = 200
    /\ Len(tg_result.body.orthogonal_array[9]) = 3

\* C2: for 1..4 factors of 3 levels there are exactly 9 experiments,
\* experiment r gives factor c the value levels_c[L9[r][c]], and with at
\* least 2 factors of pairwise distinct levels no two experiments are the
\* same combination.
C2_Experiments ==
    ServiceReturned =>
        LET factors == tg_request.factors
            ex == tg_result.body.experiments
        IN  /\ tg_result.status = 200
            /\ tg_result.body.num_experiments = 9
            /\ Len(ex) = 9
            /\ \A r \in 1..9 :
                  /\ Len(ex[r]) = Len(factors)
                  /\ \A c \in 1..Len(factors) :
                        ex[r][c] = factors[c][L9[r][c] + 1]
            /\ (Len(factors) >= 2 /\ DistinctLevels(factors)) =>
                  \A r1, r2 \in 1..9 : r1 # r2 => ex[r1] # ex[r2]

C2_Witness ==
    /\ ServiceReturned
    /\ tg_request.factors = << <<1, 2, 3>>, <<10, 20, 30>> >>
    /\ Len(tg_result.body.experiments) = 9
    /\ tg_result.body.experiments[6] = <<2, 30>>

Ascending(s) == \A i, j \in 1..Len(s) : i < j => s[i] < s[j]

\* C3: the sn_analysis entry of factor f and level l lists, in ascending
\* order, exactly the rows whose array entry in column f is l, and reports
\* the level's value.
C3_SnAnalysis ==
    ServiceReturned =>
        LET factors == tg_request.factors
            sn == tg_result.body.sn_analysis
        IN  /\ Len(sn) = Len(factors)
            /\ \A f \in 1..Len(factors) :
                  /\ Len(sn[f]) = 3
                  /\ \A l \in Levels :
                        LET e == sn[f][l + 1].experiments
                        IN  /\ sn[f][l + 1].level = factors[f][l + 1]
                            /\ Ascending(e)
                            /\ { e[i] : i \in 1..Len(e) } =
                                  { i \in 0..8 : L9[i + 1][f] = l }

C3_Witness ==
    /\ ServiceReturned
    /\ Len(tg_request.factors) = 4
    /\ tg_result.body.sn_analysis[4][2].experiments = <<1, 5, 6>>

\* C4: more than 4 factors are rejected with a validation error (a 400
\* response), neither truncated nor ended by an unhandled fault.
C4_RejectsMoreThanFour ==
    (tg_pc # "idle" /\ tg_request.has_factors /\ Len(tg_request.factors) > 4) =>
        tg_result.status = 400

\* C5: a request through the route with only a factor mapping (1..4
\* factors of 3 levels, or none so that the default is used) completes
\* with orthogonal_array, experiments and sn_analysis.
C5_RouteCompletes ==
    ( /\ tg_pc = "route"
      /\ \/ ~tg_request.has_factors
         \/ /\ Len(tg_request.factors) \in 1..4
            /\ ThreeLevels(tg_request.factors) ) =>
        /\ tg_result.status = 200
        /\ Len(tg_result.body.orthogonal_array) = 9
        /\ Len(tg_result.body.experiments) = 9

(***************************************************************************)
(* PCA route: properties                                                   *)
(***************************************************************************)

\* C6: a request whose data_matrix is absent, empty or has fewer than 2
\* rows gets the 400 error response and pca_analysis is not invoked; a
\* request with at least 2 rows reaches pca_analysis and gets its result.
C6_PcaValidation ==
    pca_response.status # 0 =>
        IF ~pca_request.present \/ Len(pca_request.rows) < 2
        THEN /\ pca_response.status = 400
             /\ pca_response.error # ""
             /\ pca_calls = 0
        ELSE /\ pca_response.status \in {200, 500}
             /\ pca_response.error = ""
             /\ pca_calls = 1
             /\ pca_response.status = 200 =>
                   pca_response.body.n_observations = Len(pca_request.rows)

C6_Witness ==
    /\ pca_request.present
    /\ Len(pca_request.rows) = 1
    /\ pca_response.status = 400
    /\ pca_calls = 0

\* num / den = 1 in Q(sqrt(R)), den an integer.
IsOne(x, R) == x.den # 0 /\ QSign(QSub(x.num, <<x.den, 0>>), R) = 0

\* The sum of the ratios, which share one denominator.
RatioSum(ratios) ==
    [num |-> IF Len(ratios) = 1 THEN ratios[1].num
             ELSE QAdd(ratios[1].num, ratios[2].num),
     den |-> ratios[1].den]

\* C13: for every accepted input (N >= 2 rows) the returned
\* explained_variance_ratio entries sum to 1 and the last entry of
\* cumulative_variance is 1, columns that are all constant included.
C13_RatiosSumToOne ==
    pca_response.status = 200 =>
        LET body == pca_response.body
        IN  /\ IsOne(RatioSum(body.explained_variance_ratio), body.radicand)
            /\ IsOne(body.cumulative_variance[body.n_variables],
                     body.radicand)

\* The request's own scatter matrix, n_obs^2 (n_obs - 1) times its
\* covariance matrix.
RequestScatter ==
    LET d == Centered(pca_request.rows)
    IN  [a |-> Scatter(d, 1, 1), b |-> Scatter(d, 1, 2), c |-> Scatter(d, 2, 2)]

\* Column k of the returned eigenvectors is a unit eigenvector of the
\* covariance matrix for the k-th returned eigenvalue: with lambda the
\* eigenvalue numerator (twice the scatter eigenvalue), 2 S u = lambda u.
EigenPair(k) ==
    LET body == pca_response.body
        R == body.radicand
        S == RequestScatter
        lambda == body.eigenvalues[k].num
        u1 == body.eigenvectors[1][k].num
        u2 == body.eigenvectors[2][k].num
        n2 == body.eigenvectors[1][k].n2
    IN  /\ QEq(QAdd(QScale(2 * S.a, u1), QScale(2 * S.b, u2)),
               QMul(lambda, u1, R), R)
        /\ QEq(QAdd(QScale(2 * S.b, u1), QScale(2 * S.c, u2)),
               QMul(lambda, u2, R), R)
        /\ body.eigenvectors[2][k].n2 = n2
        /\ QSign(u1, R) # 0 \/ QSign(u2, R) # 0
        /\ QEq(QAdd(QMul(u1, u1, R), QMul(u2, u2, R)), n2, R)

\* Score column k is the centered data projected on eigenvector column k.
ScoreColumn(k) ==
    LET body == pca_response.body
        d == Centered(pca_request.rows)
    IN  \A i \in 1..body.n_observations :
            /\ body.scores[i][k].den = body.n_observations
            /\ body.scores[i][k].n2 = body.eigenvectors[1][k].n2
            /\ body.scores[i][k].num =
                   QAdd(QScale(d[i][1], body.eigenvectors[1][k].num),
                        QScale(d[i][2], body.eigenvectors[2][k].num))

\* C14: the returned eigenvalues are in non-increasing order, and the k-th
\* returned eigenvector column and score column belong to the k-th
\* returned eigenvalue: one permutation is applied to both.
C14_SortedEigenpairs ==
    pca_response.status = 200 =>
        LET body == pca_response.body
        IN  /\ Len(body.eigenvalues) = body.n_variables
            /\ body.eigenvalues[1].den = body.eigenvalues[2].den
            /\ body.eigenvalues[1].den > 0
            /\ QSign(QSub(body.eigenvalues[1].num, body.eigenvalues[2].num),
                     body.radicand) >= 0
            /\ \A k \in 1..body.n_variables : EigenPair(k) /\ ScoreColumn(k)

\* A decomposition with two different eigenvalues and correlated columns,
\* so that the eigenvectors are not the coordinate axes.
C14_Witness ==
    /\ pca_response.status = 200
    /\ RequestScatter.b # 0
    /\ RequestScatter.a # RequestScatter.c
    /\ QSign(QSub(pca_response.body.eigenvalues[1].num,
                  pca_response.body.eigenvalues[2].num),
             pca_response.body.radicand) > 0
    /\ pca_response.body.eigenvectors[2][1].num[2] # 0
    /\ ISqrt(pca_response.body.radicand) * ISqrt(pca_response.body.radicand)
          # pca_response.body.radicand

\* C21: for every N x P input with N >= 2 and P >= 1, a single-variable
\* matrix included, pca_analysis completes without a fault and returns P
\* eigenvalues, a P x P eigenvector matrix, N x P scores and min(3, P)
\* correlation entries.
C21_CompletesForEveryShape ==
    (pca_response.status # 0 /\ pca_request.present
         /\ Len(pca_request.rows) >= 2) =>
        LET body == pca_response.body
            N == Len(pca_request.rows)
            P == Len(pca_request.rows[1])
        IN  /\ pca_response.status = 200
            /\ body.fault = "none"
            /\ Len(body.eigenvalues) = P
            /\ Len(body.eigenvectors) = P
            /\ \A var \in 1..Len(body.eigenvectors) :
                  Len(body.eigenvectors[var]) = P
            /\ Len(body.scores) = N
            /\ \A i \in 1..Len(body.scores) : Len(body.scores[i]) = P
            /\ Len(body.correlations) = Min(3, P)

\* C22: every loading correlation pca_analysis returns has magnitude at
\* most 1: eigenvector_component^2 * eigenvalue never exceeds the variance
\* of the variable that is used in the denominator.
C22_CorrelationAtMostOne ==
    pca_response.status = 200 =>
        LET body == pca_response.body
        IN  \A pc \in 1..Len(body.correlations) :
                \A var \in 1..Len(body.correlations[pc]) :
                    LET corr == body.correlations[pc][var]
                    IN  \/ corr.zero
                        \/ /\ QSign(corr.sq_den, body.radicand) > 0
                           /\ QSign(QSub(corr.sq_den, corr.sq_num),
                                    body.radicand) >= 0

(***************************************************************************)
(* Rod mesh: properties                                                    *)
(***************************************************************************)

RodOmega == Omega(rod.num_freq_points, rod.omega_step)

\* damping_ratio * (K_nominal / k_nominal)
NominalDamping ==
    [num |-> MScale(rod.damping, Stiffness(rod.E0)), den |-> rod.E0]

\* C7: in one Monte Carlo computation the damping matrix is computed from
\* the nominal stiffness and is the same matrix for every draw.
C7_DampingSharedAcrossDraws ==
    \A s \in 1..Len(C_draws) : C_draws[s] = NominalDamping

\* C8: with sigma_E = 0 the polynomial-chaos mean and the Monte Carlo mean
\* are the same at every sweep frequency, those with w > 0 included.
C8_ChaosAgreesWithMonteCarlo ==
    (mc_result.done /\ pc_result.done /\ rod.sigma_E = 0) =>
        \A f \in 1..rod.num_freq_points :
            mc_result.mean_transfer_function[f] =
                pc_result.mean_transfer_function[f]

\* |x0| of the one deterministic solve at stiffness E0 and frequency w:
\* K x = F for w = 0, (K - w^2 M + j w C) x = F else, C = damping K / E0.
DeterministicMagnitude(w) ==
    LET K == Stiffness(rod.E0)
        Z == IF w = 0 THEN StaticSystem(K)
             ELSE Impedance(K, w, NominalDamping)
        r == linalg_solve(Z)
    IN  IF r.error THEN 0 ELSE Abs(r.x[1])

SystemAt(K, C, w) == IF w = 0 THEN StaticSystem(K) ELSE Impedance(K, w, C)

\* x solves Z x = (1, 0): with x[i] = num_i / d and Z = (re + j im) / den,
\* row 1 gives A11 num_1 + A12 num_2 = den d (A = re + j im) and row 2
\* gives A21 num_1 + A22 num_2 = 0.
SolvesSystem(Z, x) ==
    /\ x[1].den = x[2].den
    /\ x[1].den # <<0, 0>>
    /\ CAdd(CMul(Entry(Z, 1), x[1].num), CMul(Entry(Z, 2), x[2].num)) =
          CMul(<<Z.den, 0>>, x[1].den)
    /\ CAdd(CMul(Entry(Z, 3), x[1].num), CMul(Entry(Z, 4), x[2].num)) = <<0, 0>>

\* The magnitude a pair must record: 0 when its system is singular, |x0|
\* of the solution of its system otherwise.
RecordedAsClaimed(Z, recorded) ==
    LET r == linalg_solve(Z)
    IN  IF Det(Z) = <<0, 0>>
        THEN recorded = 0
        ELSE /\ ~r.error
             /\ SolvesSystem(Z, r.x)
             /\ recorded = Abs(r.x[1])

\* C10: a singular solve records 0 for that (draw, frequency) pair alone,
\* every other pair is solved and recorded, and the computation returns a
\* normal payload; in the static and the dynamic branch of both engines.
C10_SingularRecordsZero ==
    /\ \A s \in 1..Len(all_H_mag) :
          /\ Len(all_H_mag[s]) = rod.num_freq_points
          /\ \A f \in 1..rod.num_freq_points :
                RecordedAsClaimed(
                    SystemAt(Stiffness(E_samples[s]), C_draws[s], RodOmega[f]),
                    all_H_mag[s][f])
    /\ mc_result.done =>
          /\ mc_result.fault = "none"
          /\ Len(all_H_mag) = rod.num_samples
          /\ Len(mc_result.mean_transfer_function) = rod.num_freq_points
    /\ pc_result.done =>
          /\ pc_result.fault = "none"
          /\ Len(pc_result.mean_transfer_function) = rod.num_freq_points
          /\ \A f \in 1..rod.num_freq_points :
                RecordedAsClaimed(
                    SystemAt(Stiffness(rod.E0), ChaosDamping(rod.damping),
                             RodOmega[f]),
                    pc_result.mean_transfer_function[f])

SingularAt(K, C, w) == Det(SystemAt(K, C, w)) = <<0, 0>>

\* A Monte Carlo run with a singular dynamic pair recorded as 0 next to a
\* solved pair of the same draw, and a chaos run with a singular dynamic
\* pair as well.
C10_Witness ==
    /\ mc_result.done
    /\ mc_result.fault = "none"
    /\ pc_result.done
    /\ pc_result.fault = "none"
    /\ \E s \in 1..Len(all_H_mag) : \E f, g \in 1..rod.num_freq_points :
          /\ RodOmega[f] > 0
          /\ SingularAt(Stiffness(E_samples[s]), C_draws[s], RodOmega[f])
          /\ all_H_mag[s][f] = 0
          /\ all_H_mag[s][g] > 0
    /\ \E f, g \in 1..rod.num_freq_points :
          /\ RodOmega[f] > 0
          /\ SingularAt(Stiffness(rod.E0), ChaosDamping(rod.damping), RodOmega[f])
          /\ pc_result.mean_transfer_function[f] = 0
          /\ pc_result.mean_transfer_function[g] > 0

\* The static branches meet a singular system too: a draw of stiffness 0,
\* and a nominal stiffness of 0 in the chaos engine.
StaticSingularMonteCarlo ==
    /\ mc_result.done
    /\ \E s \in 1..Len(all_H_mag) :
          /\ E_samples[s] = 0
          /\ all_H_mag[s][1] = 0
          /\ \E t \in 1..Len(all_H_mag) : all_H_mag[t][1] > 0

StaticSingularChaos ==
    /\ pc_result.done
    /\ rod.E0 = 0
    /\ rod.num_freq_points >= 2
    /\ pc_result.mean_transfer_function[1] = 0
    /\ pc_result.mean_transfer_function[2] > 0

\* |H0[0]| of the nominal system alone: no sigma_E, no order.
BaselineMagnitude(w) ==
    LET K0 == Stiffness(rod.E0)
        Z0 == IF w = 0 THEN StaticSystem(K0)
              ELSE Impedance(K0, w, ChaosDamping(rod.damping))
        r == linalg_solve(Z0)
    IN  IF r.error THEN 0 ELSE Abs(r.x[1])

\* C15: the chaos mean is the magnitude of the first component of the
\* baseline solution H0 only, whatever sigma_E and the truncation order
\* are; chaos_order echoes the order input.
C15_ChaosMeanIsBaseline ==
    pc_result.done =>
        /\ pc_result.chaos_order = rod.order
        /\ \A f \in 1..rod.num_freq_points :
              pc_result.mean_transfer_function[f] = BaselineMagnitude(RodOmega[f])

\* A chaos run with sigma_E > 0 and a non-default order whose first-order
\* correction at a dynamic frequency is not zero.
C15_Witness ==
    /\ pc_result.done
    /\ rod.sigma_E = 1
    /\ rod.order = 1
    /\ rod.num_freq_points >= 2
    /\ RodOmega[2] > 0
    /\ pc_result.mean_transfer_function[2] > 0
    /\ LET m == ChaosMatrices(rod.E0, rod.sigma_E)
           Z0 == Impedance(m.K0, RodOmega[2], ChaosDamping(rod.damping))
           r == linalg_solve(Z0)
       IN  /\ ~r.error
           /\ ChaosCorrections(Z0, m.K1, <<r.x[1].num, r.x[2].num>>).H1.num[1]
                 # <<0, 0>>

\* floor(sqrt(n)) = r, stated without computing it.
IsFloorSqrt(r, n) == r >= 0 /\ r * r <= n /\ n < (r + 1) * (r + 1)

\* C16: the five sequences of the Monte Carlo result have num_freq_points
\* entries in sweep order, upper and lower bound are mean +- 2 std at every
\* index, and mean and std at index i are taken over the N magnitudes
\* recorded at frequency i.
C16_SummaryPerFrequency ==
    (mc_result.done /\ mc_result.fault = "none") =>
        LET n == rod.num_freq_points
            N == rod.num_samples
            mean == mc_result.mean_transfer_function
            std == mc_result.std_transfer_function
        IN  /\ Len(all_H_mag) = N
            /\ Len(mc_result.frequencies) = n
            /\ Len(mean) = n
            /\ Len(std) = n
            /\ Len(mc_result.upper_bound) = n
            /\ Len(mc_result.lower_bound) = n
            /\ \A i \in 1..n :
                  LET sum == SumSeq([s \in 1..N |-> all_H_mag[s][i]])
                      dev == SumSeq([s \in 1..N |->
                                (all_H_mag[s][i] - mean[i]) *
                                (all_H_mag[s][i] - mean[i])])
                  IN  /\ mc_result.frequencies[i] = (i - 1) * rod.omega_step
                      /\ N * mean[i] <= sum
                      /\ sum < N * (mean[i] + 1)
                      /\ IsFloorSqrt(std[i], dev \div N)
                      /\ mc_result.upper_bound[i] = mean[i] + 2 * std[i]
                      /\ mc_result.lower_bound[i] = mean[i] - 2 * std[i]

\* Two draws that differ at the second frequency but not at the first.
C16_Witness ==
    /\ mc_result.done
    /\ rod.num_samples = 2
    /\ rod.num_freq_points >= 2
    /\ all_H_mag[1][1] # all_H_mag[1][2]
    /\ all_H_mag[1][2] # all_H_mag[2][2]
    /\ mc_result.std_transfer_function[2] > 0
    /\ mc_result.upper_bound[2] > mc_result.mean_transfer_function[2]
    /\ mc_result.lower_bound[2] < mc_result.mean_transfer_function[2]

AllZero(seq) == \A i \in 1..Len(seq) : seq[i] = 0

\* C17: with sigma_xi = sigma_omega = 0 the Monte Carlo mode and the
\* weighted-grid mode both return mean = deterministic_response and
\* std = 0 at every sweep frequency, for every sample count and grid size.
C17_ZeroSigmaIsDeterministic ==
    (osc_result.done /\ osc.sigma_xi = 0 /\ osc.sigma_omega = 0) =>
        /\ osc_result.monte_carlo.mean = osc_result.deterministic_response
        /\ AllZero(osc_result.monte_carlo.std)
        /\ ~osc_result.taguchi.nan
        /\ osc_result.taguchi.mean = osc_result.deterministic_response
        /\ AllZero(osc_result.taguchi.std)

\* C18: for xi0 > 0 and omega0 > 0 the deterministic response at a sweep
\* frequency equal to omega0 is f_amplitude / (2 xi0 omega0^2), whatever
\* sigma_xi, sigma_omega, mc_samples and taguchi_points are.
C18_ResonancePeak ==
    osc_result.done =>
        /\ Len(osc_result.deterministic_response) = Len(osc.frequencies)
        /\ \A i \in 1..Len(osc.frequencies) :
              (osc.frequencies[i] = osc.omega0 /\ osc.xi0 > 0
                   /\ osc.omega0 > 0) =>
                 osc_result.deterministic_response[i] =
                     (ResponseScale * osc.f_amplitude)
                         \div (2 * osc.xi0 * osc.omega0 * osc.omega0)

\* A finished call with both parameters uncertain, two samples and a
\* three-point grid whose sweep holds omega0.
C18_Witness ==
    /\ osc_result.done
    /\ osc.xi0 = 2
    /\ osc.omega0 = 1
    /\ osc.sigma_xi = 1
    /\ osc.sigma_omega = 1
    /\ osc.mc_samples = 2
    /\ osc.taguchi_points = 3
    /\ osc.f_amplitude = 2
    /\ osc.frequencies = <<1, 2>>
    /\ osc_result.deterministic_response[1] = 250
    /\ osc_result.monte_carlo.mean # osc_result.deterministic_response

\* The grid point of pair k, before the floor.
GridPoint(x0, sigma, n, i) ==
    IF n = 1 THEN x0 - 3 * sigma
    ELSE x0 - 3 * sigma + ((i - 1) * 6 * sigma) \div (n - 1)

\* C20: every xi and omega passed to the amplitude formula, by a Monte
\* Carlo draw or by a grid point, is at least 0.001: a value below the floor
\* is replaced by the floor, and a grid point keeps the Gaussian weight of
\* its position before the floor.
C20_FlooredBeforeEvaluation ==
    /\ Len(mc_responses) = Len(osc_draws)
    /\ \A s \in 1..Len(osc_draws) :
          LET d == osc_draws[s]
          IN  /\ d.xi_s >= FloorValue
              /\ d.omega_s >= FloorValue
              /\ d.xi_s = (IF d.xi_raw < FloorValue THEN FloorValue
                           ELSE d.xi_raw)
              /\ d.omega_s = (IF d.omega_raw < FloorValue THEN FloorValue
                              ELSE d.omega_raw)
              /\ \A i \in 1..Len(osc.frequencies) :
                    mc_responses[s][i] =
                        Response(d.xi_s, d.omega_s, osc.frequencies[i],
                                 osc.f_amplitude)
    /\ osc_result.done =>
          LET n == osc.taguchi_points
          IN  /\ Len(tag_evals) = n * n
              /\ \A k \in 1..Len(tag_evals) :
                    LET ev == tag_evals[k]
                        i == ((k - 1) \div n) + 1
                        j == ((k - 1) % n) + 1
                    IN  /\ ev.xi_p = GridPoint(osc.xi0, osc.sigma_xi, n, i)
                        /\ ev.om_p =
                               GridPoint(osc.omega0, osc.sigma_omega, n, j)
                        /\ ev.xi_val >= FloorValue
                        /\ ev.om_val >= FloorValue
                        /\ ev.xi_val = (IF ev.xi_p < FloorValue
                                        THEN FloorValue ELSE ev.xi_p)
                        /\ ev.om_val = (IF ev.om_p < FloorValue
                                        THEN FloorValue ELSE ev.om_p)
                        /\ ~osc_result.taguchi.nan =>
                              ev.w = Gauss((ev.xi_p - osc.xi0)
                                               \div osc.sigma_xi)
                                     * Gauss((ev.om_p - osc.omega0)
                                                 \div osc.sigma_omega)

\* A finished call in which a Monte Carlo draw fell below the floor, a grid
\* point is negative, and that grid point carries a non-zero weight.
C20_Witness ==
    /\ osc_result.done
    /\ ~osc_result.taguchi.nan
    /\ \E s \in 1..Len(osc_draws) :
          osc_draws[s].xi_raw < FloorValue /\ osc_draws[s].omega_raw < FloorValue
    /\ \E k \in 1..Len(tag_evals) :
          /\ tag_evals[k].xi_p < 0
          /\ tag_evals[k].xi_val = FloorValue
          /\ tag_evals[k].om_p < FloorValue
          /\ tag_evals[k].w > 0

(***************************************************************************)
(* Random stream: properties                                               *)
(***************************************************************************)

RECURSIVE StateAfter(_, _)
\* The generator state k draws after a state, when nobody else draws.
StateAfter(state, k) ==
    IF k = 0 THEN state ELSE StateAfter(Advance(state), k - 1)

\* The draws a call would consume from a stream of its own that starts in
\* the state the call was entered in.
OwnStream(t) ==
    [k \in 1..Len(streams[t].draws) |->
        Randn(StateAfter(streams[t].entered_at, k - 1))]

\* C11: each Monte Carlo computation draws from its own isolated stream:
\* the draws it consumes, and so its result, do not depend on how they
\* interleave with the draws of a concurrent computation.
C11_IsolatedStreams ==
    \A t \in Threads :
        /\ streams[t].draws = OwnStream(t)
        /\ streams[t].status = "done" =>
              streams[t].result = Statistics(streams[t].engine, OwnStream(t))

\* C12: an engine call leaves no state behind: the same engine called
\* twice in sequence with identical inputs returns identical statistics.
C12_PureAndIdempotent ==
    \A t \in Threads, u \in Threads :
        (/\ streams[t].status = "done"
         /\ streams[u].status = "done"
         /\ t \in streams[u].after
         /\ streams[t].engine = streams[u].engine
         /\ streams[t].samples = streams[u].samples) =>
            streams[u].result = streams[t].result

====
